---- MODULE Spec2Model ----
(***************************************************************************)
(* Quote-request pipeline of as-distributors-cdk:                          *)
(*   api-handler (validatePayload, handler)   -> SQS queue with DLQ        *)
(*   -> email-processor (generateEmailContent, handler) -> SES.            *)
(*                                                                         *)
(* JSON values are tagged records (field t is the JavaScript type); a      *)
(* string is a sequence of one-character strings; a number n is stored as  *)
(* 2*n in field x2, so that 0.5 and 1.5 are representable.                 *)
(***************************************************************************)
EXTENDS Integers, Sequences, FiniteSets, Bags, TLC

\* ------------------------------------------------------------------ bounds
MaxItems == 2
MaxRequests == 2
TickSeconds == 60
MaxRecords == 2
MaxEmailLen == 5

\* ------------------------------------------------------- stack configuration
LAMBDA_TIMEOUT_SECONDS == 30

SQS_VISIBILITY_TIMEOUT_SECONDS_Short == LAMBDA_TIMEOUT_SECONDS \div 6

SQS_VISIBILITY_TIMEOUT_SECONDS == LAMBDA_TIMEOUT_SECONDS * 6

maxReceiveCount_Four == 3 + 1

maxReceiveCount == 3

reservedConcurrentExecutions == 3

\* --------------------------------------------------------------- JSON values
Undef == [t |-> "undef"]

Null == [t |-> "null"]

Bool(b) == [t |-> "bool", b |-> b]

Num(x2) == [t |-> "num", x2 |-> x2]

Str(s) == [t |-> "str", s |-> s]

Arr(a) == [t |-> "arr", a |-> a]

EmptyObj == [t |-> "obj"]

ContactObj(n, e, p) == [t |-> "obj", name |-> n, email |-> e, phone |-> p]

ItemObj(pn, q) == [t |-> "obj", productName |-> pn, quantity |-> q]

MetaObj(ti, tu, sa) ==
  [t |-> "obj", totalItems |-> ti, totalUniqueProducts |-> tu, submittedAt |-> sa]

BodyObj(ci, qi, md, ag) ==
  [t |-> "obj", contactInfo |-> ci, quoteItems |-> qi, metadata |-> md,
   agreedToContact |-> ag]

\* JavaScript property read v.k: a TypeError on null/undefined, undefined on
\* a value that has no such property.
PropThrows(v) == v.t \in {"null", "undef"}

Prop(v, k) == IF v.t = "obj" /\ k \in DOMAIN v THEN v[k] ELSE Undef

\* JavaScript truthiness (the operand of ! and ||).
Truthy(v) ==
  CASE v.t = "undef" -> FALSE
    [] v.t = "null" -> FALSE
    [] v.t = "bool" -> v.b
    [] v.t = "num" -> v.x2 # 0
    [] v.t = "str" -> v.s # << >>
    [] OTHER -> TRUE

IsSpace(c) == c = " "

RECURSIVE TrimStart(_)
TrimStart(s) ==
  IF s # << >> /\ IsSpace(Head(s)) THEN TrimStart(Tail(s)) ELSE s

RECURSIVE TrimEnd(_)
TrimEnd(s) ==
  IF s # << >> /\ IsSpace(s[Len(s)]) THEN TrimEnd(SubSeq(s, 1, Len(s) - 1)) ELSE s

\* String.prototype.trim
Trim(s) == TrimEnd(TrimStart(s))

\* [^\s@]
EmailChar(c) == ~IsSpace(c) /\ c # "@"

\* /^[^\s@]+@[^\s@]+\.[^\s@]+$/.test(s)
EmailRegexTest(s) ==
  \E i \in 1..Len(s) : \E j \in 1..Len(s) :
    /\ s[i] = "@"
    /\ s[j] = "."
    /\ 1 < i /\ i + 1 < j /\ j < Len(s)
    /\ \A k \in 1..Len(s) : (k # i /\ k # j) => EmailChar(s[k])

\* ------------------------------------------------------ api-handler.ts
Thrown == [throws |-> TRUE, errors |-> << >>]

Returned(errs) == [throws |-> FALSE, errors |-> errs]

\* `!v || v.trim() === ""`: "throw" when v is truthy and has no trim method.
RequiredCheck(v) ==
  IF ~Truthy(v) THEN "missing"
  ELSE IF v.t # "str" THEN "throw"
  ELSE IF Trim(v.s) = << >> THEN "missing"
  ELSE "present"

ContactCheck(ci) ==
  IF ~Truthy(ci) THEN Returned(<< <<"contactInfo is required">> >>)
  ELSE
    LET n == RequiredCheck(Prop(ci, "name"))
        e == RequiredCheck(Prop(ci, "email"))
        p == RequiredCheck(Prop(ci, "phone"))
        nameErr == IF n = "missing" THEN << <<"name is required">> >> ELSE << >>
        emailErr == IF e = "missing" THEN << <<"email is required">> >>
                    ELSE IF ~EmailRegexTest(Prop(ci, "email").s)
                         THEN << <<"email is invalid">> >>
                    ELSE << >>
        phoneErr == IF p = "missing" THEN << <<"phone is required">> >> ELSE << >>
    IN IF n = "throw" \/ e = "throw" \/ p = "throw" THEN Thrown
       ELSE Returned(nameErr \o emailErr \o phoneErr)

\* (variant: the quantity test rejects negative numbers only)
ItemCheck_ZeroAllowed(item, index) ==
  IF PropThrows(item) THEN Thrown
  ELSE
    LET q == Prop(item, "quantity")
        nameErr == IF ~Truthy(Prop(item, "productName"))
                   THEN << <<"quoteItems[", index, "].productName is required">> >>
                   ELSE << >>
        qtyErr == IF q.t # "num" \/ q.x2 < 0
                  THEN << <<"quoteItems[", index, "].quantity must be a positive number">> >>
                  ELSE << >>
    IN Returned(nameErr \o qtyErr)

\* the forEach callback for one entry; index is the 0-based array index
ItemCheck(item, index) ==
  IF PropThrows(item) THEN Thrown
  ELSE
    LET q == Prop(item, "quantity")
        nameErr == IF ~Truthy(Prop(item, "productName"))
                   THEN << <<"quoteItems[", index, "].productName is required">> >>
                   ELSE << >>
        qtyErr == IF q.t # "num" \/ q.x2 < 2
                  THEN << <<"quoteItems[", index, "].quantity must be a positive number">> >>
                  ELSE << >>
    IN Returned(nameErr \o qtyErr)

RECURSIVE ItemsForEach(_, _)
ItemsForEach(a, from) ==
  IF from > Len(a) THEN Returned(<< >>)
  ELSE LET h == ItemCheck(a[from], from - 1)
           r == ItemsForEach(a, from + 1)
       IN IF h.throws \/ r.throws THEN Thrown
          ELSE Returned(h.errors \o r.errors)

ItemsCheck(qi) ==
  IF ~Truthy(qi) \/ qi.t # "arr" THEN Returned(<< <<"quoteItems must be an array">> >>)
  ELSE IF Len(qi.a) = 0 THEN Returned(<< <<"quoteItems cannot be empty">> >>)
  ELSE ItemsForEach(qi.a, 1)

AgreedCheck(ag) ==
  IF ag.t # "bool" \/ ~ag.b THEN << <<"agreedToContact must be true">> >> ELSE << >>

validatePayload(body) ==
  IF PropThrows(body) THEN Thrown
  ELSE
    LET c == ContactCheck(Prop(body, "contactInfo"))
        q == ItemsCheck(Prop(body, "quoteItems"))
    IN IF c.throws \/ q.throws THEN Thrown
       ELSE Returned(c.errors \o q.errors \o AgreedCheck(Prop(body, "agreedToContact")))

\* JSON.parse over a request or message body.  The text of a body is kept as
\* [kind |-> "json", v |-> the value it denotes]; "garbage" is any text that is
\* not JSON; "absent" is a missing or empty event.body.
Garbage == [kind |-> "garbage"]

Absent == [kind |-> "absent"]

JSONstringify(v) == [kind |-> "json", v |-> v]

JSONparse(text) ==
  IF text.kind = "json" THEN [throws |-> FALSE, value |-> text.v]
  ELSE [throws |-> TRUE, value |-> Undef]

NoCommand == [QueueUrl |-> "none"]

SendMessageCommand(body) ==
  [QueueUrl |-> "QUEUE_URL",
   MessageBody |-> JSONstringify(body),
   MessageAttributes |-> [email |-> Prop(Prop(body, "contactInfo"), "email")]]

Response(status, respBody, command, enqueued) ==
  [statusCode |-> status, body |-> respBody, command |-> command, enqueued |-> enqueued]

InternalError ==
  Response(500, [success |-> FALSE,
                 error |-> "Internal server error. Please try again later."],
           NoCommand, FALSE)

\* (variant: the validation result is not checked before the enqueue)
apiHandler_NoValidation(eventBody, sqsOk) ==
  LET parsed == JSONparse(IF eventBody.kind = "absent"
                          THEN JSONstringify(EmptyObj) ELSE eventBody)
  IN IF parsed.throws
     THEN Response(400, [success |-> FALSE, error |-> "Invalid JSON in request body"],
                   NoCommand, FALSE)
     ELSE IF validatePayload(parsed.value).throws \/ PropThrows(Prop(parsed.value, "contactInfo"))
     THEN InternalError
     ELSE IF ~sqsOk
     THEN [InternalError EXCEPT !.command = SendMessageCommand(parsed.value)]
     ELSE Response(200, [success |-> TRUE,
                         message |-> "Quote request submitted successfully"],
                   SendMessageCommand(parsed.value), TRUE)

\* (variant: the send is not awaited, 200 is answered whatever its outcome)
apiHandler_SendNotAwaited(eventBody, sqsOk) ==
  LET parsed == JSONparse(IF eventBody.kind = "absent"
                          THEN JSONstringify(EmptyObj) ELSE eventBody)
  IN IF parsed.throws
     THEN Response(400, [success |-> FALSE, error |-> "Invalid JSON in request body"],
                   NoCommand, FALSE)
     ELSE
       LET validation == validatePayload(parsed.value)
       IN IF validation.throws THEN InternalError
          ELSE IF Len(validation.errors) > 0
          THEN Response(400, [success |-> FALSE, error |-> "Validation failed",
                              details |-> validation.errors],
                        NoCommand, FALSE)
          ELSE Response(200, [success |-> TRUE,
                              message |-> "Quote request submitted successfully"],
                        SendMessageCommand(parsed.value), sqsOk)

\* The api handler: event body text and the outcome of sqsClient.send in,
\* the HTTP result and the SendMessage call (if one is issued) out.
apiHandler(eventBody, sqsOk) ==
  LET parsed == JSONparse(IF eventBody.kind = "absent"
                          THEN JSONstringify(EmptyObj) ELSE eventBody)
  IN IF parsed.throws
     THEN Response(400, [success |-> FALSE, error |-> "Invalid JSON in request body"],
                   NoCommand, FALSE)
     ELSE
       LET validation == validatePayload(parsed.value)
       IN IF validation.throws THEN InternalError
          ELSE IF Len(validation.errors) > 0
          THEN Response(400, [success |-> FALSE, error |-> "Validation failed",
                              details |-> validation.errors],
                        NoCommand, FALSE)
          ELSE IF ~sqsOk
          THEN [InternalError EXCEPT !.command = SendMessageCommand(parsed.value)]
          ELSE Response(200, [success |-> TRUE,
                              message |-> "Quote request submitted successfully"],
                        SendMessageCommand(parsed.value), TRUE)

\* ---------------------------------------------------- email-processor.ts
DigitChar(d) == << "0", "1", "2", "3", "4", "5", "6", "7", "8", "9" >>[d + 1]

RECURSIVE Digits(_)
Digits(n) ==
  IF n < 10 THEN << DigitChar(n) >> ELSE Digits(n \div 10) \o << DigitChar(n % 10) >>

\* String(number), for the non-negative numbers k/2 of the model
NumToString(x2) ==
  IF x2 % 2 = 0 THEN Digits(x2 \div 2) ELSE Digits(x2 \div 2) \o << ".", "5" >>

\* `${v}` inside a template literal
Interpolate(v) ==
  CASE v.t = "str" -> v.s
    [] v.t = "num" -> NumToString(v.x2)
    [] v.t = "bool" -> IF v.b THEN << "true" >> ELSE << "false" >>
    [] v.t = "null" -> << "null" >>
    [] v.t = "undef" -> << "undefined" >>
    [] OTHER -> << "[object Object]" >>

RenderThrown == [throws |-> TRUE]

formatQuoteItemsHtml(quoteItems, totalPacksRequested) ==
  [rows |-> [i \in 1..Len(quoteItems) |->
               << Interpolate(Prop(quoteItems[i], "itemNumber")),
                  Interpolate(Prop(quoteItems[i], "productName")),
                  Interpolate(Prop(quoteItems[i], "quantity")) >>],
   total |-> Interpolate(totalPacksRequested)]

formatQuoteItemsText(quoteItems) ==
  [i \in 1..Len(quoteItems) |->
     << "- [", Interpolate(Prop(quoteItems[i], "itemNumber")), "] ",
        Interpolate(Prop(quoteItems[i], "productName")), ": ",
        Interpolate(Prop(quoteItems[i], "quantity")), " pack(s)" >>]

\* sum of quantity over the items (the figure the code does NOT render)
RECURSIVE SumQuantityX2(_)
SumQuantityX2(items) ==
  IF items = << >> THEN 0
  ELSE (IF Prop(Head(items), "quantity").t = "num"
        THEN Prop(Head(items), "quantity").x2 ELSE 0) + SumQuantityX2(Tail(items))

RenderedWith(contactInfo, quoteItems, metadata, total) ==
  [throws |-> FALSE,
   subject |-> << "New Quote Request from ", Interpolate(Prop(contactInfo, "name")) >>,
   htmlBody |-> [name |-> Interpolate(Prop(contactInfo, "name")),
                 mailto |-> Interpolate(Prop(contactInfo, "email")),
                 email |-> Interpolate(Prop(contactInfo, "email")),
                 tel |-> Interpolate(Prop(contactInfo, "phone")),
                 phone |-> Interpolate(Prop(contactInfo, "phone")),
                 items |-> formatQuoteItemsHtml(quoteItems.a, total),
                 submitted |-> Interpolate(Prop(metadata, "submittedAt"))],
   textBody |-> [name |-> Interpolate(Prop(contactInfo, "name")),
                 email |-> Interpolate(Prop(contactInfo, "email")),
                 phone |-> Interpolate(Prop(contactInfo, "phone")),
                 products |-> Interpolate(Prop(metadata, "totalUniqueProducts")),
                 total |-> Interpolate(total),
                 items |-> formatQuoteItemsText(quoteItems.a),
                 submitted |-> Interpolate(Prop(metadata, "submittedAt"))]]

RenderGuard(quoteRequest) ==
  LET contactInfo == Prop(quoteRequest, "contactInfo")
      quoteItems == Prop(quoteRequest, "quoteItems")
      metadata == Prop(quoteRequest, "metadata")
  IN \/ PropThrows(quoteRequest)
     \/ PropThrows(contactInfo)
     \/ PropThrows(metadata)
     \/ quoteItems.t # "arr"
     \/ \E i \in 1..Len(quoteItems.a) : PropThrows(quoteItems.a[i])

generateEmailContent_Summed(quoteRequest) ==
  IF RenderGuard(quoteRequest) THEN RenderThrown
  ELSE RenderedWith(Prop(quoteRequest, "contactInfo"), Prop(quoteRequest, "quoteItems"),
                    Prop(quoteRequest, "metadata"),
                    Num(SumQuantityX2(Prop(quoteRequest, "quoteItems").a)))

generateEmailContent(quoteRequest) ==
  IF RenderGuard(quoteRequest) THEN RenderThrown
  ELSE RenderedWith(Prop(quoteRequest, "contactInfo"), Prop(quoteRequest, "quoteItems"),
                    Prop(quoteRequest, "metadata"),
                    Prop(Prop(quoteRequest, "metadata"), "totalItems"))

NoEmail == [Source |-> "none"]

SendEmailCommand(quoteRequest, content) ==
  [Source |-> "SENDER_EMAIL",
   ToAddresses |-> << "SALES_REP_EMAIL" >>,
   ReplyToAddresses |-> << Prop(Prop(quoteRequest, "contactInfo"), "email") >>,
   Subject |-> content.subject,
   Html |-> content.htmlBody,
   Text |-> content.textBody]

\* The email processor up to its await of sesClient.send, for one record:
\* JSON.parse, generateEmailContent, new SendEmailCommand.
processRecord(recordBody) ==
  LET parsed == JSONparse(recordBody)
  IN IF parsed.throws THEN [throws |-> TRUE, command |-> NoEmail]
     ELSE LET content == generateEmailContent(parsed.value)
          IN IF content.throws THEN [throws |-> TRUE, command |-> NoEmail]
             ELSE [throws |-> FALSE, command |-> SendEmailCommand(parsed.value, content)]

\* (variant: one digest email for the whole batch, addressed from the first
\* record, listing the items of every record)
RECURSIVE AllItems(_)
AllItems(records) ==
  IF records = << >> THEN << >>
  ELSE Prop(JSONparse(Head(records)).value, "quoteItems").a \o AllItems(Tail(records))

emailProcessorHandler_Digest(records, sesOk) ==
  IF \E i \in 1..Len(records) : processRecord(records[i]).throws
  THEN [throws |-> TRUE, commands |-> << >>]
  ELSE LET first == JSONparse(records[1]).value
           digest == [first EXCEPT !.quoteItems = Arr(AllItems(records))]
       IN [throws |-> ~sesOk[1],
           commands |-> << SendEmailCommand(digest, generateEmailContent(digest)) >>]

\* The email processor's loop over event.Records: each record is parsed,
\* rendered and sent before the next one is looked at; the first throw ends
\* the invocation.  sesOk[i] is whether sesClient.send resolves for record i.
RECURSIVE ProcessRecords(_, _, _)
ProcessRecords(records, sesOk, i) ==
  IF i > Len(records) THEN [throws |-> FALSE, commands |-> << >>]
  ELSE LET r == processRecord(records[i])
       IN IF r.throws THEN [throws |-> TRUE, commands |-> << >>]
          ELSE IF ~sesOk[i] THEN [throws |-> TRUE, commands |-> << r.command >>]
          ELSE LET rest == ProcessRecords(records, sesOk, i + 1)
               IN [throws |-> rest.throws, commands |-> << r.command >> \o rest.commands]

emailProcessorHandler(records, sesOk) == ProcessRecords(records, sesOk, 1)

\* ------------------------------------------------------------- state
VARIABLES
  loc,            \* message id -> "none" | "queue" | "dlq" | "acked"
  msgBody,        \* message id -> MessageBody text
  receiveCount,   \* message id -> ApproximateReceiveCount
  visTimer,       \* message id -> seconds until the message is visible again
  sesCalls,       \* message id -> sesClient.send calls issued for it
  running,        \* bag of email-processor invocations awaiting sesClient.send
  nInvocations,   \* api-handler invocations so far
  nValidated,     \* ... of which the body parsed and validatePayload returned []
  nSendCalls,     \* ... of which issued sqsClient.send
  nOk,            \* ... of which answered 200
  fnIn,           \* function applied and its argument (function specifications)
  fnOut           \* its result

fnVars == << fnIn, fnOut >>

vars == << loc, msgBody, receiveCount, visTimer, sesCalls, running,
           nInvocations, nValidated, nSendCalls, nOk, fnIn, fnOut >>

Messages == 1..MaxRequests

NoBody == [kind |-> "none"]

NoCall == [fn |-> "none"]

NotCalled == [called |-> FALSE]

Max(a, b) == IF a > b THEN a ELSE b

\* an invocation of the email processor holding message m; attempt is the
\* record's ApproximateReceiveCount
Invocation(m, attempt, timeLeft) == [msg |-> m, attempt |-> attempt, timeLeft |-> timeLeft]

Invocations == BagToSet(running)

\* number of running invocations that hold message m
Holders(m) ==
  BagCardinality([inv \in { x \in Invocations : x.msg = m } |-> running[inv]])

\* ------------------------------------------------------------- inputs
S1(a) == Str(<< a >>)

GoodEmail == Str(<< "a", "@", "b", ".", "c" >>)

GoodContact == ContactObj(S1("J"), GoodEmail, S1("5"))

GoodMeta == MetaObj(Num(4), Num(2), S1("T"))

GoodItems == Arr(<< ItemObj(S1("W"), Num(4)) >>)

\* request bodies offered to the api handler in the pipeline
PipelineBodies ==
  { Garbage, Absent, JSONstringify(Null),
    JSONstringify(BodyObj(ContactObj(S1("J"), GoodEmail, Num(10)), GoodItems, GoodMeta, Bool(TRUE))),
    JSONstringify(BodyObj(GoodContact, GoodItems, GoodMeta, Bool(FALSE))),
    JSONstringify(BodyObj(GoodContact, GoodItems, GoodMeta, Bool(TRUE))),
    JSONstringify(BodyObj(GoodContact, GoodItems, Undef, Bool(TRUE))) }

PipelineInit ==
  /\ loc = [m \in Messages |-> "none"]
  /\ msgBody = [m \in Messages |-> NoBody]
  /\ receiveCount = [m \in Messages |-> 0]
  /\ visTimer = [m \in Messages |-> 0]
  /\ sesCalls = [m \in Messages |-> 0]
  /\ running = EmptyBag
  /\ nInvocations = 0
  /\ nValidated = 0
  /\ nSendCalls = 0
  /\ nOk = 0

Init ==
  /\ PipelineInit
  /\ fnIn = NoCall
  /\ fnOut = NotCalled

\* ------------------------------------------------------------- actions
Enqueued == { m \in Messages : loc[m] # "none" }

\* One invocation of the api handler (POST /quote).  sqsOk is whether the
\* SendMessage call is accepted by the queue.
Intake(eventBody, sqsOk) ==
  LET r == apiHandler(eventBody, sqsOk)
      parsed == JSONparse(IF eventBody.kind = "absent"
                          THEN JSONstringify(EmptyObj) ELSE eventBody)
      valid == /\ ~parsed.throws
               /\ validatePayload(parsed.value) = Returned(<< >>)
      id == Cardinality(Enqueued) + 1
  IN /\ nInvocations < MaxRequests
     /\ nInvocations' = nInvocations + 1
     /\ nValidated' = nValidated + (IF valid THEN 1 ELSE 0)
     /\ nSendCalls' = nSendCalls + (IF r.command.QueueUrl # "none" THEN 1 ELSE 0)
     /\ nOk' = nOk + (IF r.statusCode = 200 THEN 1 ELSE 0)
     /\ IF r.enqueued
        THEN /\ loc' = [loc EXCEPT ![id] = "queue"]
             /\ msgBody' = [msgBody EXCEPT ![id] = r.command.MessageBody]
        ELSE UNCHANGED << loc, msgBody >>
     /\ UNCHANGED << receiveCount, visTimer, sesCalls, running, fnVars >>

\* (variant: the handler sends the email again within the same invocation)
Deliver_Resend(m) ==
  /\ loc[m] = "queue"
  /\ visTimer[m] = 0
  /\ receiveCount[m] < maxReceiveCount
  /\ BagCardinality(running) < reservedConcurrentExecutions
  /\ receiveCount' = [receiveCount EXCEPT ![m] = @ + 1]
  /\ visTimer' = [visTimer EXCEPT ![m] = SQS_VISIBILITY_TIMEOUT_SECONDS]
  /\ IF processRecord(msgBody[m]).throws
     THEN UNCHANGED << running, sesCalls >>
     ELSE /\ running' = running (+) SetToBag({Invocation(m, receiveCount[m] + 1, LAMBDA_TIMEOUT_SECONDS)})
          /\ sesCalls' = [sesCalls EXCEPT ![m] = @ + 2]
  /\ UNCHANGED << loc, msgBody, nInvocations, nValidated, nSendCalls, nOk, fnVars >>

\* The queue hands a visible message to the event source, which invokes the
\* email processor with it (one record per invocation); the handler runs up
\* to its await of sesClient.send, or throws before it.
Deliver(m) ==
  /\ loc[m] = "queue"
  /\ visTimer[m] = 0
  /\ receiveCount[m] < maxReceiveCount
  /\ BagCardinality(running) < reservedConcurrentExecutions
  /\ receiveCount' = [receiveCount EXCEPT ![m] = @ + 1]
  /\ visTimer' = [visTimer EXCEPT ![m] = SQS_VISIBILITY_TIMEOUT_SECONDS]
  /\ IF processRecord(msgBody[m]).throws
     THEN UNCHANGED << running, sesCalls >>
     ELSE /\ running' = running (+) SetToBag({Invocation(m, receiveCount[m] + 1, LAMBDA_TIMEOUT_SECONDS)})
          /\ sesCalls' = [sesCalls EXCEPT ![m] = @ + 1]
  /\ UNCHANGED << loc, msgBody, nInvocations, nValidated, nSendCalls, nOk, fnVars >>

\* sesClient.send resolves: the handler returns and the event source deletes
\* the message.
SendResolve(inv) ==
  /\ BagIn(inv, running)
  /\ inv.timeLeft > 0
  /\ running' = running (-) SetToBag({inv})
  /\ loc' = [loc EXCEPT ![inv.msg] = IF @ = "queue" THEN "acked" ELSE @]
  /\ visTimer' = [visTimer EXCEPT ![inv.msg] = 0]
  /\ UNCHANGED << msgBody, receiveCount, sesCalls,
                  nInvocations, nValidated, nSendCalls, nOk, fnVars >>

\* (variant: the catch block swallows the error, so the handler returns)
SendReject_Swallowed(inv) ==
  /\ BagIn(inv, running)
  /\ inv.timeLeft > 0
  /\ running' = running (-) SetToBag({inv})
  /\ loc' = [loc EXCEPT ![inv.msg] = IF @ = "queue" THEN "acked" ELSE @]
  /\ visTimer' = [visTimer EXCEPT ![inv.msg] = 0]
  /\ UNCHANGED << msgBody, receiveCount, sesCalls,
                  nInvocations, nValidated, nSendCalls, nOk, fnVars >>

\* sesClient.send rejects: the catch block logs and rethrows; the invocation
\* fails and the message is left in the queue, still invisible.
SendReject(inv) ==
  /\ BagIn(inv, running)
  /\ inv.timeLeft > 0
  /\ running' = running (-) SetToBag({inv})
  /\ UNCHANGED << loc, msgBody, receiveCount, visTimer, sesCalls,
                  nInvocations, nValidated, nSendCalls, nOk, fnVars >>

\* The function timeout ends the invocation; the message is left in the queue.
Timeout(inv) ==
  /\ BagIn(inv, running)
  /\ inv.timeLeft = 0
  /\ running' = running (-) SetToBag({inv})
  /\ UNCHANGED << loc, msgBody, receiveCount, visTimer, sesCalls,
                  nInvocations, nValidated, nSendCalls, nOk, fnVars >>

\* (variant: no dead-letter queue, the exhausted message is discarded)
MoveToDLQ_Discard(m) ==
  /\ loc[m] = "queue"
  /\ visTimer[m] = 0
  /\ receiveCount[m] >= maxReceiveCount
  /\ loc' = [loc EXCEPT ![m] = "discarded"]
  /\ UNCHANGED << msgBody, receiveCount, visTimer, sesCalls, running,
                  nInvocations, nValidated, nSendCalls, nOk, fnVars >>

\* Redrive policy: a visible message already received maxReceiveCount times
\* goes to the dead-letter queue instead of being received again.
MoveToDLQ(m) ==
  /\ loc[m] = "queue"
  /\ visTimer[m] = 0
  /\ receiveCount[m] >= maxReceiveCount
  /\ loc' = [loc EXCEPT ![m] = "dlq"]
  /\ UNCHANGED << msgBody, receiveCount, visTimer, sesCalls, running,
                  nInvocations, nValidated, nSendCalls, nOk, fnVars >>

RECURSIVE AgeAll(_)
AgeAll(invs) ==
  IF invs = {} THEN EmptyBag
  ELSE LET inv == CHOOSE x \in invs : TRUE
       IN [i \in {Invocation(inv.msg, inv.attempt, Max(0, inv.timeLeft - TickSeconds))} |-> running[inv]]
          (+) AgeAll(invs \ {inv})

\* TickSeconds of time pass.  An invocation cannot outlive its timeout, so
\* time stops until every invocation whose time is up has been ended.
Tick ==
  /\ \A inv \in Invocations : inv.timeLeft > 0
  /\ \/ \E m \in Messages : visTimer[m] > 0
     \/ Invocations # {}
  /\ visTimer' = [m \in Messages |-> Max(0, visTimer[m] - TickSeconds)]
  /\ running' = AgeAll(Invocations)
  /\ UNCHANGED << loc, msgBody, receiveCount, sesCalls,
                  nInvocations, nValidated, nSendCalls, nOk, fnVars >>

Next ==
  \/ \E b \in PipelineBodies : \E ok \in BOOLEAN : Intake(b, ok)
  \/ \E m \in Messages : Deliver(m)
  \/ \E inv \in Invocations : SendResolve(inv)
  \/ \E inv \in Invocations : SendReject(inv)
  \/ \E inv \in Invocations : Timeout(inv)
  \/ \E m \in Messages : MoveToDLQ(m)
  \/ Tick

Spec == Init /\ [][Next]_vars

\* The event source keeps polling, time passes, every SES call settles or the
\* function times out, and the queue applies its redrive policy.  Message
\* retention (the SQS default of 4 days: the retentionPeriod on line 45 of
\* quote-request-stack.ts is inside the line comment) is far longer than
\* maxReceiveCount visibility timeouts and is not modelled.
Fairness ==
  /\ WF_vars(Tick)
  /\ \A m \in Messages :
       /\ WF_vars(Deliver(m))
       /\ WF_vars(MoveToDLQ(m))
       /\ WF_vars(\E inv \in Invocations :
                    inv.msg = m /\ (SendResolve(inv) \/ SendReject(inv) \/ Timeout(inv)))

LiveSpec == Init /\ [][Next]_vars /\ Fairness

\* ------------------------------------------- function specifications
Prefixes(n, E) == UNION { [1..k -> E] : k \in 0..n }

NameValues == { Undef, Str(<< " " >>), S1("J"), Num(2) }

EmailValues == { Undef, GoodEmail, Str(<< "a", "@", "b" >>), Num(2) }

PhoneValues == { Str(<< >>), S1("5"), Num(10) }

ContactValues ==
  { Undef, Null, S1("x") }
  \cup { ContactObj(n, e, p) : n \in NameValues, e \in EmailValues, p \in PhoneValues }

EntryValues ==
  { Null }
  \cup { ItemObj(pn, q) : pn \in { Undef, Str(<< >>), S1("W") },
                          q \in { S1("1"), Num(0), Num(3) } }

ItemsValues == { Undef, Null, EmptyObj, S1("x") } \cup { Arr(a) : a \in Prefixes(MaxItems, EntryValues) }

AgreedValues == { Undef, Bool(FALSE), Bool(TRUE), S1("y") }

ValidateInputs ==
  { Null, Num(2), S1("x"), Arr(<< >>) }
  \cup { BodyObj(ci, qi, GoodMeta, ag) :
           ci \in ContactValues, qi \in ItemsValues, ag \in AgreedValues }

InitValidate ==
  /\ PipelineInit
  /\ fnIn \in { [fn |-> "validatePayload", arg |-> b] : b \in ValidateInputs }
  /\ fnOut = NotCalled

CallValidatePayload ==
  /\ fnIn.fn = "validatePayload"
  /\ fnOut = NotCalled
  /\ fnOut' = [called |-> TRUE, result |-> validatePayload(fnIn.arg)]
  /\ UNCHANGED << loc, msgBody, receiveCount, visTimer, sesCalls, running,
                  nInvocations, nValidated, nSendCalls, nOk, fnIn >>

SpecValidate == InitValidate /\ [][CallValidatePayload]_vars

HandlerContacts ==
  { Undef, GoodContact, ContactObj(S1("J"), GoodEmail, Num(10)),
    ContactObj(S1("J"), Str(<< "a", "@", "b" >>), S1("5")) }

HandlerBodies ==
  { Garbage, Absent }
  \cup { JSONstringify(v) : v \in { Null, Num(2), S1("x"), Arr(<< >>) } }
  \cup { JSONstringify(BodyObj(ci, qi, GoodMeta, ag)) :
           ci \in HandlerContacts, qi \in ItemsValues, ag \in AgreedValues }

InitHandler ==
  /\ PipelineInit
  /\ fnIn \in { [fn |-> "apiHandler", body |-> b, sqsOk |-> ok] :
                  b \in HandlerBodies, ok \in BOOLEAN }
  /\ fnOut = NotCalled

CallApiHandler ==
  /\ fnIn.fn = "apiHandler"
  /\ fnOut = NotCalled
  /\ fnOut' = [called |-> TRUE, result |-> apiHandler(fnIn.body, fnIn.sqsOk)]
  /\ UNCHANGED << loc, msgBody, receiveCount, visTimer, sesCalls, running,
                  nInvocations, nValidated, nSendCalls, nOk, fnIn >>

SpecHandler == InitHandler /\ [][CallApiHandler]_vars

RenderEntries ==
  { ItemObj(S1("W"), Num(q)) : q \in { 2, 3, 4, 6 } }

RenderItemSeqs == Prefixes(MaxItems, RenderEntries) \ { << >> }

RenderMetas ==
  { Undef, EmptyObj }
  \cup { MetaObj(ti, Num(2), S1("T")) : ti \in { Undef, Num(0), Num(4), Num(6), Num(16), S1("8") } }

\* every input passes validatePayload: metadata is not validated
RenderInputs ==
  { BodyObj(ContactObj(n, GoodEmail, S1("5")), Arr(a), md, Bool(TRUE)) :
      n \in { S1("J"), S1("K") }, a \in RenderItemSeqs, md \in RenderMetas }

InitRender ==
  /\ PipelineInit
  /\ fnIn \in { [fn |-> "generateEmailContent", arg |-> q] : q \in RenderInputs }
  /\ fnOut = NotCalled

CallGenerateEmailContent ==
  /\ fnIn.fn = "generateEmailContent"
  /\ fnOut = NotCalled
  /\ fnOut' = [called |-> TRUE, result |-> generateEmailContent(fnIn.arg)]
  /\ UNCHANGED << loc, msgBody, receiveCount, visTimer, sesCalls, running,
                  nInvocations, nValidated, nSendCalls, nOk, fnIn >>

\* (variant: the renderer keeps module-level state and marks every rendering
\* after the first)
CallGenerateEmailContentAgain_Stamped ==
  /\ fnIn.fn = "generateEmailContent"
  /\ fnOut # NotCalled
  /\ "again" \notin DOMAIN fnOut
  /\ LET first == generateEmailContent(fnIn.arg)
     IN fnOut' = [called |-> TRUE, result |-> fnOut.result,
                  again |-> IF first.throws THEN first
                            ELSE [first EXCEPT !.textBody.submitted = << "again" >>]]
  /\ UNCHANGED << loc, msgBody, receiveCount, visTimer, sesCalls, running,
                  nInvocations, nValidated, nSendCalls, nOk, fnIn >>

\* a second call with the same argument, as on a redelivery of the message
CallGenerateEmailContentAgain ==
  /\ fnIn.fn = "generateEmailContent"
  /\ fnOut # NotCalled
  /\ "again" \notin DOMAIN fnOut
  /\ fnOut' = [called |-> TRUE, result |-> fnOut.result,
               again |-> generateEmailContent(fnIn.arg)]
  /\ UNCHANGED << loc, msgBody, receiveCount, visTimer, sesCalls, running,
                  nInvocations, nValidated, nSendCalls, nOk, fnIn >>

NextRender == CallGenerateEmailContent \/ CallGenerateEmailContentAgain

SpecRender == InitRender /\ [][NextRender]_vars

\* ------------------------------------------------------------- claims
InSeq(x, seq) == \E i \in 1..Len(seq) : seq[i] = x

AgreementError == << "agreedToContact must be true" >>

IsItemError(e) == Len(e) = 3

\* C1 as stated: the number of messages enqueued equals the number of
\* api-handler invocations whose body parsed and passed validatePayload.
C1_EnqueuedEqualsValidated == Cardinality(Enqueued) = nValidated

StoredPayloadValid(m) ==
  /\ ~JSONparse(msgBody[m]).throws
  /\ validatePayload(JSONparse(msgBody[m]).value) = Returned(<< >>)

\* C1 amended: every invocation whose body parsed and passed validatePayload
\* issues exactly one enqueue call and no other invocation issues any; the
\* messages enqueued are those of the invocations whose enqueue call was
\* accepted (the ones answered 200); every message in the main queue or the
\* dead-letter queue holds a payload that passes validatePayload.
C1_OneEnqueueCallPerValidRequest ==
  /\ [](/\ nSendCalls = nValidated
        /\ Cardinality(Enqueued) = nOk
        /\ nOk <= nValidated
        /\ \A m \in Messages : loc[m] \in {"queue", "dlq"} => StoredPayloadValid(m))
  /\ [][/\ nSendCalls' - nSendCalls = nValidated' - nValidated
        /\ nValidated' = nValidated => Enqueued' = Enqueued
        /\ Cardinality(Enqueued') - Cardinality(Enqueued) \in {0, 1}]_vars

C1_Witness ==
  /\ nValidated = 2
  /\ nSendCalls = 2
  /\ Cardinality(Enqueued) = 1

\* C2: validatePayload never throws, whatever parsed JSON value it is given.
C2_ValidateNeverThrows ==
  (fnIn.fn = "validatePayload" /\ fnOut.called) => ~fnOut.result.throws

\* C3: every client input error is answered 400: an unparseable body with
\* "Invalid JSON in request body", a parsed payload that is not a valid
\* QuoteRequest with "Validation failed" and the complete validator list.
C3_ClientErrorsGet400 ==
  (fnIn.fn = "apiHandler" /\ fnOut.called) =>
    LET parsed == JSONparse(IF fnIn.body.kind = "absent"
                            THEN JSONstringify(EmptyObj) ELSE fnIn.body)
        v == validatePayload(parsed.value)
        r == fnOut.result
    IN /\ parsed.throws =>
            /\ r.statusCode = 400
            /\ r.body = [success |-> FALSE, error |-> "Invalid JSON in request body"]
       /\ (~parsed.throws /\ v # Returned(<< >>)) =>
            /\ r.statusCode = 400
            /\ r.body.success = FALSE
            /\ r.body.error = "Validation failed"
            /\ ~v.throws => r.body.details = v.errors

AgreedMissing(body) ==
  LET ag == Prop(body, "agreedToContact") IN ag.t # "bool" \/ ~ag.b

\* C4: a payload whose agreedToContact is missing, false or not a boolean
\* gets a non-empty error list containing "agreedToContact must be true",
\* whatever contactInfo and quoteItems are.
C4_AgreementErrorAlwaysReported ==
  (fnIn.fn = "validatePayload" /\ fnOut.called /\ fnIn.arg.t = "obj"
     /\ AgreedMissing(fnIn.arg)) =>
    /\ ~fnOut.result.throws
    /\ Len(fnOut.result.errors) > 0
    /\ InSeq(AgreementError, fnOut.result.errors)

NameDefect(entry) == Prop(entry, "productName") \in { Undef, Null, Str(<< >>) }

QuantityDefect(entry) ==
  LET q == Prop(entry, "quantity") IN q.t # "num" \/ q.x2 < 2

RECURSIVE ExpectedItemErrors(_, _)
ExpectedItemErrors(a, from) ==
  IF from > Len(a) THEN << >>
  ELSE (IF NameDefect(a[from])
        THEN << << "quoteItems[", from - 1, "].productName is required" >> >>
        ELSE << >>)
       \o (IF QuantityDefect(a[from])
           THEN << << "quoteItems[", from - 1, "].quantity must be a positive number" >> >>
           ELSE << >>)
       \o ExpectedItemErrors(a, from + 1)

\* C5: for a non-empty quoteItems array the validator reports one error per
\* defect of every offending index, in ascending index order, none for a
\* well-formed entry, and accumulates the agreement error in the same list.
C5_EveryOffendingIndexReported ==
  (fnIn.fn = "validatePayload" /\ fnOut.called /\ fnIn.arg.t = "obj"
     /\ Prop(fnIn.arg, "quoteItems").t = "arr"
     /\ Len(Prop(fnIn.arg, "quoteItems").a) > 0) =>
    /\ ~fnOut.result.throws
    /\ SelectSeq(fnOut.result.errors, IsItemError)
         = ExpectedItemErrors(Prop(fnIn.arg, "quoteItems").a, 1)
    /\ AgreedMissing(fnIn.arg) => InSeq(AgreementError, fnOut.result.errors)

RenderedTotals(content) == << content.htmlBody.items.total, content.textBody.total >>

SumFigure(quoteRequest) == Interpolate(Num(SumQuantityX2(Prop(quoteRequest, "quoteItems").a)))

Exhausted(m) == loc[m] = "queue" /\ receiveCount[m] = 3 /\ Holders(m) = 0

\* C7: no message is delivered to the email processor more than 3 times; a
\* message whose third delivery ended without acknowledgement is never
\* delivered again, is moved to the dead-letter queue, and stays there.
C7_DeadLetterAfterThreeDeliveries ==
  /\ [](\A m \in Messages :
          /\ receiveCount[m] <= 3
          /\ loc[m] = "dlq" => (receiveCount[m] = 3 /\ Holders(m) = 0))
  /\ [][\A m \in Messages :
          /\ (Exhausted(m) \/ loc[m] = "dlq") =>
               /\ receiveCount'[m] = receiveCount[m]
               /\ Holders(m)' = 0
               /\ loc'[m] \in {loc[m], "dlq"}]_vars
  /\ \A m \in Messages : Exhausted(m) ~> (loc[m] = "dlq")

C7_Witness == \E m \in Messages : loc[m] = "dlq" /\ receiveCount[m] = 3 /\ sesCalls[m] = 3

\* C8: when the email processor throws on a message (in JSON.parse or
\* generateEmailContent at delivery, or because sesClient.send rejects) the
\* invocation ends, the message stays in the queue unacknowledged with a
\* receive count one above the count before that delivery, under a finite
\* visibility timer; a message is acknowledged only by the step in which its
\* invocation returns normally.
C8_ThrowLeavesMessageForRedelivery ==
  [][\A m \in Messages :
       /\ \A inv \in Invocations :
            (inv.msg = m /\ SendReject(inv)) =>
              /\ loc[m] = "queue" /\ loc'[m] = "queue"
              /\ inv.attempt = receiveCount[m]
              /\ receiveCount'[m] = receiveCount[m]
              /\ visTimer'[m] <= SQS_VISIBILITY_TIMEOUT_SECONDS
              /\ Holders(m)' = Holders(m) - 1
       /\ Deliver(m) =>
            /\ receiveCount'[m] = receiveCount[m] + 1
            /\ loc'[m] = "queue"
            /\ \A inv \in Invocations' :
                 (inv.msg = m /\ ~BagIn(inv, running)) => inv.attempt = receiveCount[m] + 1
            /\ processRecord(msgBody[m]).throws =>
                 (Holders(m)' = 0 /\ visTimer'[m] <= SQS_VISIBILITY_TIMEOUT_SECONDS)
       /\ (loc[m] = "queue" /\ loc'[m] = "acked") =>
            \E inv \in Invocations : inv.msg = m /\ SendResolve(inv)]_vars

C8_Witness ==
  \E m \in Messages :
    /\ loc[m] = "queue"
    /\ receiveCount[m] = 2
    /\ sesCalls[m] = 2
    /\ Holders(m) = 1

\* C9: at every moment at most one email-processor invocation holds a given
\* message, and while an invocation holds it the message is in the queue and
\* invisible (its visibility timeout has not run out).
C9_OneHolderPerMessage ==
  /\ \A m \in Messages : Holders(m) <= 1
  /\ \A inv \in Invocations : loc[inv.msg] = "queue" /\ visTimer[inv.msg] > 0

C9_Witness ==
  /\ BagCardinality(running) = 2
  /\ \E inv \in Invocations : inv.timeLeft = 0 /\ visTimer[inv.msg] > 0

\* C10: under fair delivery every enqueued message eventually is either
\* acknowledged (by an invocation whose SES send resolved and which returned)
\* or in the dead-letter queue (after maxReceiveCount failed deliveries); it
\* leaves the main queue in no other way and the outcome is final.
C10_EveryMessageReachesOneOutcome ==
  /\ \A m \in Messages : (loc[m] = "queue") ~> (loc[m] \in {"acked", "dlq"})
  /\ [][\A m \in Messages :
          /\ loc[m] \in {"acked", "dlq"} => loc'[m] = loc[m]
          /\ loc[m] # "none" => loc'[m] \in {"queue", "acked", "dlq"}
          /\ (loc[m] = "queue" /\ loc'[m] # "queue") =>
               \/ /\ loc'[m] = "acked"
                  /\ \E inv \in Invocations : inv.msg = m /\ SendResolve(inv)
               \/ /\ loc'[m] = "dlq"
                  /\ receiveCount[m] >= 3
                  /\ MoveToDLQ(m)]_vars

C10_Witness ==
  \E m1 \in Messages : \E m2 \in Messages :
    loc[m1] = "acked" /\ loc[m2] = "dlq"

GenericErrorBody ==
  [success |-> FALSE, error |-> "Internal server error. Please try again later."]

\* C11: the api handler always returns a result with status 200, 400 or 500;
\* when the body parsed and then the enqueue call fails or the validator
\* throws, the result is 500 with exactly the generic error body (no details
\* field, no text of the underlying error); 200 is returned only when the
\* enqueue call was issued and accepted.
C11_UnexpectedErrorsGetGeneric500 ==
  (fnIn.fn = "apiHandler" /\ fnOut.called) =>
    LET parsed == JSONparse(IF fnIn.body.kind = "absent"
                            THEN JSONstringify(EmptyObj) ELSE fnIn.body)
        v == validatePayload(parsed.value)
        r == fnOut.result
    IN /\ r.statusCode \in {200, 400, 500}
       /\ r.statusCode = 500 => r.body = GenericErrorBody
       /\ (~parsed.throws /\ v.throws) => r.statusCode = 500
       /\ (~parsed.throws /\ v = Returned(<< >>) /\ ~fnIn.sqsOk) =>
            (r.statusCode = 500 /\ ~r.enqueued /\ r.command.QueueUrl # "none")
       /\ r.statusCode = 200 =>
            /\ fnIn.sqsOk /\ r.enqueued /\ r.command.QueueUrl # "none"
            /\ r.body = [success |-> TRUE, message |-> "Quote request submitted successfully"]
       /\ r.enqueued => r.statusCode = 200

C11_Witness ==
  /\ fnIn.fn = "apiHandler"
  /\ fnOut.called
  /\ ~fnIn.sqsOk
  /\ fnOut.result.command.QueueUrl # "none"
  /\ fnOut.result.statusCode = 500

\* ------------------------------------------- email processor on a batch
OtherEmail == Str(<< "k", "@", "b", ".", "c" >>)

RecordBodies ==
  { Garbage }
  \cup { JSONstringify(BodyObj(c, Arr(a), md, Bool(TRUE))) :
           c \in { GoodContact, ContactObj(S1("K"), OtherEmail, S1("6")) },
           a \in { << ItemObj(S1("W"), Num(4)) >>,
                   << ItemObj(S1("V"), Num(2)), ItemObj(S1("W"), Num(6)) >> },
           md \in { GoodMeta, Undef } }

Batches == UNION { [1..n -> RecordBodies] : n \in 1..MaxRecords }

InitProcessor ==
  /\ PipelineInit
  /\ fnIn \in { [fn |-> "emailProcessorHandler", records |-> b, sesOk |-> ok] :
                  b \in Batches, ok \in [1..MaxRecords -> BOOLEAN] }
  /\ fnOut = NotCalled

CallEmailProcessorHandler ==
  /\ fnIn.fn = "emailProcessorHandler"
  /\ fnOut = NotCalled
  /\ fnOut' = [called |-> TRUE,
               result |-> emailProcessorHandler(fnIn.records, fnIn.sesOk)]
  /\ UNCHANGED << loc, msgBody, receiveCount, visTimer, sesCalls, running,
                  nInvocations, nValidated, nSendCalls, nOk, fnIn >>

SpecProcessor == InitProcessor /\ [][CallEmailProcessorHandler]_vars

\* C12: every SES send call of an email-processor invocation is built from
\* exactly one record of the batch, the k-th call from the k-th record: fixed
\* sender, the single sales-rep recipient, reply-to that record's contact
\* email, subject with that record's contact name, and item rows for that
\* record's items only; there are never more calls than records.
C12_OneEmailPerRecord ==
  (fnIn.fn = "emailProcessorHandler" /\ fnOut.called) =>
    /\ Len(fnOut.result.commands) <= Len(fnIn.records)
    /\ \A k \in 1..Len(fnOut.result.commands) :
         LET cmd == fnOut.result.commands[k]
             q == JSONparse(fnIn.records[k]).value
             contact == Prop(q, "contactInfo")
         IN /\ cmd.Source = "SENDER_EMAIL"
            /\ cmd.ToAddresses = << "SALES_REP_EMAIL" >>
            /\ cmd.ReplyToAddresses = << Prop(contact, "email") >>
            /\ cmd.Subject = << "New Quote Request from ", Prop(contact, "name").s >>
            /\ cmd.Html.name = Prop(contact, "name").s
            /\ cmd.Text.email = Prop(contact, "email").s
            /\ Len(cmd.Html.items.rows) = Len(Prop(q, "quoteItems").a)
            /\ Len(cmd.Text.items) = Len(Prop(q, "quoteItems").a)
            /\ \A i \in 1..Len(cmd.Html.items.rows) :
                 cmd.Html.items.rows[i][2] = Prop(Prop(q, "quoteItems").a[i], "productName").s

C12_Witness ==
  /\ fnIn.fn = "emailProcessorHandler"
  /\ fnOut.called
  /\ Len(fnIn.records) = 2
  /\ fnIn.records[1] # fnIn.records[2]
  /\ Len(fnOut.result.commands) = 2
  /\ fnOut.result.commands[1].ReplyToAddresses # fnOut.result.commands[2].ReplyToAddresses

\* ------------------------------------------------ configuration at load
\* process.env values: undefined, the empty string, or a string
EnvValues == { Undef, Str(<< >>), S1("x") }

OriginValues == EnvValues \cup { S1(","), Str(<< "x", ",", " " >>) }

Components == { "apiHandler", "emailProcessor", "cdkApp" }

\* getRequiredEnv: throws when the value is undefined or empty (!value)
getRequiredEnv(env, key) == [throws |-> ~Truthy(env[key]), value |-> env[key]]

\* String.prototype.split(",")
RECURSIVE SplitComma(_)
SplitComma(s) ==
  IF \E i \in 1..Len(s) : s[i] = ","
  THEN LET i == CHOOSE j \in 1..Len(s) : s[j] = "," /\ \A k \in 1..(j - 1) : s[k] # ","
       IN << SubSeq(s, 1, i - 1) >> \o SplitComma(SubSeq(s, i + 1, Len(s)))
  ELSE << s >>

parseCommaSeparatedList(value) ==
  LET parts == SplitComma(value)
      trimmed == [i \in 1..Len(parts) |-> Trim(parts[i])]
      NonEmpty(item) == Len(item) > 0
  IN SelectSeq(trimmed, NonEmpty)

\* loadEnvConfig, restricted to the keys of the quote request stack (the
\* account, region, domain and GitHub keys are held set)
loadEnvConfig(env) ==
  IF getRequiredEnv(env, "SALES_REP_EMAIL").throws \/ getRequiredEnv(env, "ALLOWED_ORIGINS").throws
  THEN [throws |-> TRUE, ALLOWED_ORIGINS |-> << >>]
  ELSE [throws |-> FALSE,
        ALLOWED_ORIGINS |-> parseCommaSeparatedList(getRequiredEnv(env, "ALLOWED_ORIGINS").value.s)]

ColdStart ==
  [called |-> FALSE,
   status |-> [c \in Components |-> "cold"],
   handled |-> [c \in Components |-> FALSE],
   statusCode |-> 0,
   allowedOrigins |-> << >>]

InitConfig ==
  /\ PipelineInit
  /\ fnIn \in { [fn |-> "config",
                 env |-> [QUEUE_URL |-> q, SALES_REP_EMAIL |-> r,
                          SENDER_EMAIL |-> e, ALLOWED_ORIGINS |-> o]] :
                  q \in EnvValues, r \in EnvValues, e \in EnvValues, o \in OriginValues }
  /\ fnOut = ColdStart

PipelineUnchanged ==
  UNCHANGED << loc, msgBody, receiveCount, visTimer, sesCalls, running,
               nInvocations, nValidated, nSendCalls, nOk, fnIn >>

\* api-handler module load: QUEUE_URL is read from process.env unchecked
LoadApiHandler ==
  /\ fnIn.fn = "config"
  /\ fnOut.status["apiHandler"] = "cold"
  /\ fnOut' = [fnOut EXCEPT !.status["apiHandler"] = "ok"]
  /\ PipelineUnchanged

\* email-processor module load: both addresses go through getRequiredEnv
LoadEmailProcessor ==
  /\ fnIn.fn = "config"
  /\ fnOut.status["emailProcessor"] = "cold"
  /\ fnOut' = [fnOut EXCEPT !.status["emailProcessor"] =
                 IF getRequiredEnv(fnIn.env, "SALES_REP_EMAIL").throws
                    \/ getRequiredEnv(fnIn.env, "SENDER_EMAIL").throws
                 THEN "failed" ELSE "ok"]
  /\ PipelineUnchanged

\* lib/env module load of the CDK app
LoadEnvConfig ==
  /\ fnIn.fn = "config"
  /\ fnOut.status["cdkApp"] = "cold"
  /\ LET config == loadEnvConfig(fnIn.env)
     IN fnOut' = [fnOut EXCEPT !.status["cdkApp"] = IF config.throws THEN "failed" ELSE "ok",
                               !.allowedOrigins = config.ALLOWED_ORIGINS]
  /\ PipelineUnchanged

\* a loaded api handler serves a well-formed request; whether sqsClient.send
\* resolves is the SQS client's business
InvokeApiHandler(sqsOk) ==
  /\ fnIn.fn = "config"
  /\ fnOut.status["apiHandler"] = "ok"
  /\ ~fnOut.handled["apiHandler"]
  /\ fnOut' = [fnOut EXCEPT
                 !.handled["apiHandler"] = TRUE,
                 !.statusCode =
                    apiHandler(JSONstringify(BodyObj(GoodContact, GoodItems, GoodMeta, Bool(TRUE))),
                               sqsOk).statusCode]
  /\ PipelineUnchanged

\* a loaded email processor handles a record
InvokeEmailProcessor ==
  /\ fnIn.fn = "config"
  /\ fnOut.status["emailProcessor"] = "ok"
  /\ ~fnOut.handled["emailProcessor"]
  /\ fnOut' = [fnOut EXCEPT !.handled["emailProcessor"] = TRUE]
  /\ PipelineUnchanged

\* the CDK app builds the quote request stack from the loaded configuration
Synth ==
  /\ fnIn.fn = "config"
  /\ fnOut.status["cdkApp"] = "ok"
  /\ ~fnOut.handled["cdkApp"]
  /\ fnOut' = [fnOut EXCEPT !.handled["cdkApp"] = TRUE]
  /\ PipelineUnchanged

NextConfig ==
  \/ LoadApiHandler
  \/ LoadEmailProcessor
  \/ LoadEnvConfig
  \/ \E sqsOk \in BOOLEAN : InvokeApiHandler(sqsOk)
  \/ InvokeEmailProcessor
  \/ Synth

SpecConfig == InitConfig /\ [][NextConfig]_vars

RequiredKeys(c) ==
  CASE c = "apiHandler" -> { "QUEUE_URL" }
    [] c = "emailProcessor" -> { "SALES_REP_EMAIL", "SENDER_EMAIL" }
    [] c = "cdkApp" -> { "SALES_REP_EMAIL", "ALLOWED_ORIGINS" }

\* C13: a component whose required configuration has an absent or empty value
\* fails at load and never handles a request or message.
C13_MissingConfigFailsAtLoad ==
  fnIn.fn = "config" =>
    \A c \in Components :
      (\E key \in RequiredKeys(c) : ~Truthy(fnIn.env[key])) =>
        /\ fnOut.status[c] # "ok"
        /\ ~fnOut.handled[c]

EmailAlphabet == { "a", "@", ".", " " }

AcceptEmails == { Str(e) : e \in Prefixes(MaxEmailLen, EmailAlphabet) }

AcceptEntries ==
  { Null }
  \cup { ItemObj(pn, q) : pn \in { Undef, Str(<< >>), S1("W"), Num(10) },
                          q \in { S1("1"), Num(-2), Num(1), Num(2), Num(3) } }

AcceptNames == { Undef, Str(<< >>), Str(<< " " >>), S1("J"), Str(<< " ", "J" >>), Num(2) }

AcceptPhones == { Undef, Str(<< >>), Str(<< " " >>), S1("5"), Num(10) }

AcceptAgreed == { Undef, Bool(FALSE), Bool(TRUE), S1("y"), Num(2) }

AcceptInputs ==
  { BodyObj(ContactObj(S1("J"), e, S1("5")), GoodItems, GoodMeta, Bool(TRUE)) : e \in AcceptEmails }
  \cup { BodyObj(GoodContact, qi, GoodMeta, Bool(TRUE)) :
           qi \in { Undef, EmptyObj } \cup { Arr(a) : a \in Prefixes(MaxItems, AcceptEntries) } }
  \cup { BodyObj(ContactObj(n, GoodEmail, p), GoodItems, GoodMeta, ag) :
           n \in AcceptNames, p \in AcceptPhones, ag \in AcceptAgreed }
  \cup { BodyObj(ci, GoodItems, GoodMeta, Bool(TRUE)) : ci \in { Undef, Null, S1("x") } }
  \cup { Null, Num(2), Arr(<< >>) }

InitAccept ==
  /\ PipelineInit
  /\ fnIn \in { [fn |-> "validatePayload", arg |-> b] : b \in AcceptInputs }
  /\ fnOut = NotCalled

SpecAccept == InitAccept /\ [][CallValidatePayload]_vars

NonBlankString(v) == v.t = "str" /\ \E i \in 1..Len(v.s) : v.s[i] # " "

\* local@domain.tld: no white space, one "@" after a non-empty local part, and
\* a "." with something on both sides after the "@"
EmailShape(v) ==
  /\ v.t = "str"
  /\ \A i \in 1..Len(v.s) : v.s[i] # " "
  /\ \E i \in 2..Len(v.s) :
       /\ v.s[i] = "@"
       /\ \A k \in 1..Len(v.s) : v.s[k] = "@" => k = i
       /\ \E j \in (i + 2)..(Len(v.s) - 1) : v.s[j] = "."

ContactOK(p) ==
  /\ p.t = "obj"
  /\ Prop(p, "contactInfo").t = "obj"
  /\ NonBlankString(Prop(Prop(p, "contactInfo"), "name"))
  /\ NonBlankString(Prop(Prop(p, "contactInfo"), "phone"))
  /\ EmailShape(Prop(Prop(p, "contactInfo"), "email"))

ItemsOK(p, EntryOK(_)) ==
  /\ p.t = "obj"
  /\ Prop(p, "quoteItems").t = "arr"
  /\ Prop(p, "quoteItems").a # << >>
  /\ \A i \in 1..Len(Prop(p, "quoteItems").a) : EntryOK(Prop(p, "quoteItems").a[i])

\* an entry of the data model: non-empty string productName, integer quantity >= 1
ModelEntry(item) ==
  /\ item.t = "obj"
  /\ Prop(item, "productName").t = "str" /\ Prop(item, "productName").s # << >>
  /\ Prop(item, "quantity").t = "num"
  /\ Prop(item, "quantity").x2 >= 2 /\ Prop(item, "quantity").x2 % 2 = 0

\* an entry the validator lets through: truthy productName, any number >= 1
LooseEntry(item) ==
  /\ item.t = "obj"
  /\ Truthy(Prop(item, "productName"))
  /\ Prop(item, "quantity").t = "num"
  /\ Prop(item, "quantity").x2 >= 2

Accepted == fnOut.result = Returned(<< >>)

\* C15 as stated: validatePayload returns an empty error list exactly for the
\* payloads of the data model (string productName, integer quantity >= 1).
C15_AcceptsExactlyDataModel ==
  (fnIn.fn = "validatePayload" /\ fnOut.called) =>
    (Accepted <=> /\ ContactOK(fnIn.arg)
                  /\ ItemsOK(fnIn.arg, ModelEntry)
                  /\ Prop(fnIn.arg, "agreedToContact") = Bool(TRUE))

\* C15 amended: validatePayload returns an empty error list exactly for the
\* payloads whose contact name and phone are non-blank strings, whose email
\* has the local@domain.tld shape, whose quoteItems is a non-empty array of
\* entries with a truthy productName (of any type) and a numeric quantity >= 1
\* (integer or not), and whose agreedToContact is true.
C15_AcceptsExactlyLooseModel ==
  (fnIn.fn = "validatePayload" /\ fnOut.called) =>
    (Accepted <=> /\ ContactOK(fnIn.arg)
                  /\ ItemsOK(fnIn.arg, LooseEntry)
                  /\ Prop(fnIn.arg, "agreedToContact") = Bool(TRUE))

C15_Witness ==
  /\ fnIn.fn = "validatePayload"
  /\ fnOut.called
  /\ Accepted
  /\ \E i \in 1..Len(Prop(fnIn.arg, "quoteItems").a) :
       /\ Prop(Prop(fnIn.arg, "quoteItems").a[i], "quantity") = Num(3)
       /\ Prop(Prop(fnIn.arg, "quoteItems").a[i], "productName") = Num(10)

\* C16: for every enqueued message the email processor issues at most one SES
\* send call per delivery of the message and at most 3 over the message's
\* whole life, whatever the order of rejections, timeouts and redeliveries.
C16_AtMostThreeSendsPerMessage ==
  \A m \in Messages :
    /\ sesCalls[m] <= receiveCount[m]
    /\ receiveCount[m] <= 3
    /\ sesCalls[m] <= 3
    /\ loc[m] = "none" => sesCalls[m] = 0

C16_Witness ==
  \E m \in Messages :
    /\ loc[m] = "acked"
    /\ receiveCount[m] = 3
    /\ sesCalls[m] = 3
    /\ Holders(m) = 0

====
